---- MODULE Spec2Model ----
(***************************************************************************)
(* Model of etc/jupyterhub_config_comanage.py: a JupyterHub configuration  *)
(* file for CILogon + COmanage.  The file is a straight-line Python        *)
(* script that the configuration loader executes statement by statement   *)
(* with the name c bound to a fresh settings object.  The state is the     *)
(* process environment, the settings object, the script's namespace and   *)
(* the position of the interpreter in the file.  The inputs are what the  *)
(* file does not control: the environment it inherits and which of the    *)
(* two third-party modules it imports are installed.                      *)
(***************************************************************************)
EXTENDS Integers, Sequences, FiniteSets, TLC

VARIABLES
    pc,         \* index in Program of the statement to execute next
    status,     \* "loading", "done" (end of file reached) or "failed" (raised)
    error,      \* the exception that ended loading, or "none"
    environ,    \* os.environ: variable name -> value
    c,          \* the settings object: <<section, trait>> -> value
    ns,         \* the script's namespace: name -> value
    installed,  \* the importable third-party modules of the interpreter
    writes      \* how many times the file assigned each environment variable and key

vars == <<pc, status, error, environ, c, ns, installed, writes>>

----------------------------------------------------------------------------
(* Python values.  Every kind has its own field so that values of          *)
(* different kinds are never equal.                                        *)

Unset == [kind |-> "unset"]
StrV(s) == [kind |-> "str", s |-> s]
IntV(n) == [kind |-> "int", n |-> n]
BoolV(b) == [kind |-> "bool", b |-> b]
ListV(items) == [kind |-> "list", items |-> items]
SetV(elems) == [kind |-> "set", elems |-> elems]
ClassV(module, name) == [kind |-> "class", module |-> module, name |-> name]
ModuleV(module) == [kind |-> "module", module |-> module]

(* Expressions on the right-hand side of an assignment: a literal or a     *)
(* name looked up in the namespace.                                        *)
Lit(v) == [e |-> "lit", v |-> v]
Name(id) == [e |-> "name", id |-> id]

----------------------------------------------------------------------------
(* The names the file uses.                                                *)

EnvNames ==
    {"CILOGON_HOST", "CILOGON_CLIENT_ID", "CILOGON_CLIENT_SECRET",
     "JUPYTERHUB_CRYPT_KEY"}

Sections ==
    {"JupyterHub", "COManageOAuthenticator", "LocalCOManageOAuthenticator",
     "ConfigurableHTTPProxy", "Spawner", "NormalizedSpawner", "Authenticator",
     "LocalAuthenticator"}

Traits ==
    {"authenticator_class", "oauth_callback_url", "idp_whitelist",
     "comanage_group_whitelist", "cookie_secret_file", "debug", "log_level",
     "spawner_class", "ssl_cert", "ssl_key", "admin_users",
     "enable_auth_state", "create_system_users"}

Keys == Sections \X Traits

(* The assignment targets of the file: os.environ[name] and c.Section.trait. *)
EnvTargets == {"os.environ"} \X EnvNames
Targets == EnvTargets \cup Keys

Names ==
    {"os", "COManageOAuthenticator", "LocalCOManageOAuthenticator",
     "NormalizedSpawner"}

ThirdPartyModules == {"oauthenticator.comanage", "jupyterhub.comanage"}

(* os is part of the standard library and always importable.               *)
StdlibModules == {"os"}

Importable(module) == module \in StdlibModules \cup installed

(* What a variable of the inherited environment may hold before the file   *)
(* runs: nothing, the empty string, or some value exported by the shell.   *)
PriorValues == {Unset, StrV(""), StrV("preset")}

----------------------------------------------------------------------------
(* The right-hand sides of the file, by line.                              *)

CilogonHostTest == "test.cilogon.org"
CilogonHost == "cilogon.org"
CilogonClientId == "cilogon:/client_id/5ea8818a26318a9dc03d8a1f82bef34a"
CilogonClientSecret == "XXXXXXXXXXXXXXXXXXXXXXXXXXXXXXXXXXXXXXXXXXXXXXXXXXXXXXXXXXXXXXXXXXXXXXXXXXXx"
EmptyCryptKey == ""
CryptKey == "XXXXXXXXXXXXXXXXXXXXXXXXXXXXXXXXXXXXXXXXXXXXXXXXXXXXXXXXXXXXxxxx"

PlainAuthenticatorExpr == Name("COManageOAuthenticator")
AuthenticatorClassExpr == Name("LocalCOManageOAuthenticator")

IdpWhitelistNoBnl == ListV(<<"anl.gov", "ornl.gov", "lbl.gov">>)
IdpWhitelist == ListV(<<"bnl.gov", "anl.gov", "ornl.gov", "lbl.gov">>)
GroupWhitelist == ListV(<<"CO:members:active", "bnl">>)

NormalizedSpawnerExpr == Name("NormalizedSpawner")
SpawnerClassExpr == Lit(StrV("jupyterhub.spawner.LocalProcessSpawner"))

AdminUsersList == ListV(<<"jhover@bnl.gov">>)
AdminUsers == SetV({"jhover@bnl.gov"})

(* Statements.                                                             *)
ImportModule(line, module) ==
    [op |-> "import", line |-> line, module |-> module]
FromImport(line, module, names) ==
    [op |-> "from_import", line |-> line, module |-> module, names |-> names]
EnvironAssign(line, name, value) ==
    [op |-> "environ", line |-> line, name |-> name, value |-> value]
ConfigAssign(line, section, trait, expr) ==
    [op |-> "config", line |-> line, key |-> <<section, trait>>, expr |-> expr]

OsImport == <<ImportModule(7, "os")>>

EnvironStmtsSecretTwice ==
    << EnvironAssign(8, "CILOGON_HOST", CilogonHost),
       EnvironAssign(9, "CILOGON_CLIENT_ID", CilogonClientId),
       EnvironAssign(10, "CILOGON_CLIENT_SECRET", CilogonClientSecret),
       EnvironAssign(11, "CILOGON_CLIENT_SECRET", CryptKey) >>

EnvironStmts ==
    << EnvironAssign(8, "CILOGON_HOST", CilogonHost),
       EnvironAssign(9, "CILOGON_CLIENT_ID", CilogonClientId),
       EnvironAssign(10, "CILOGON_CLIENT_SECRET", CilogonClientSecret),
       EnvironAssign(11, "JUPYTERHUB_CRYPT_KEY", CryptKey) >>

ImportStmts ==
    << FromImport(13, "oauthenticator.comanage",
                  {"COManageOAuthenticator", "LocalCOManageOAuthenticator"}),
       FromImport(14, "jupyterhub.comanage", {"NormalizedSpawner"}) >>

ConfigStmts ==
    << ConfigAssign(15, "JupyterHub", "authenticator_class", AuthenticatorClassExpr),
       ConfigAssign(16, "COManageOAuthenticator", "oauth_callback_url",
           Lit(StrV("https://jupyter05.sdcc.bnl.gov:8000/hub/oauth_callback"))),
       ConfigAssign(17, "COManageOAuthenticator", "idp_whitelist", Lit(IdpWhitelist)),
       ConfigAssign(18, "COManageOAuthenticator", "comanage_group_whitelist",
           Lit(GroupWhitelist)),
       ConfigAssign(19, "JupyterHub", "cookie_secret_file",
           Lit(StrV("/usr/local/anaconda3/etc/jupyterhub/jupyterhub_cookie_secret"))),
       ConfigAssign(20, "ConfigurableHTTPProxy", "debug", Lit(BoolV(TRUE))),
       ConfigAssign(21, "JupyterHub", "log_level", Lit(IntV(10))),
       ConfigAssign(22, "JupyterHub", "spawner_class", SpawnerClassExpr),
       ConfigAssign(23, "JupyterHub", "ssl_cert",
           Lit(StrV("/usr/local/anaconda3/etc/jupyterhub/ssl/certificate.crt"))),
       ConfigAssign(24, "JupyterHub", "ssl_key",
           Lit(StrV("/usr/local/anaconda3/etc/jupyterhub/ssl/key.pem"))),
       ConfigAssign(25, "Spawner", "debug", Lit(BoolV(TRUE))),
       ConfigAssign(26, "Authenticator", "admin_users", Lit(AdminUsers)),
       ConfigAssign(27, "Authenticator", "enable_auth_state", Lit(BoolV(TRUE))),
       ConfigAssign(28, "LocalAuthenticator", "create_system_users",
           Lit(BoolV(TRUE))) >>

ProgramImportsFirst == OsImport \o ImportStmts \o EnvironStmts \o ConfigStmts

ProgramSpawnerImportLast ==
    OsImport \o EnvironStmts \o <<ImportStmts[1]>> \o ConfigStmts \o <<ImportStmts[2]>>

(* The file, top to bottom.                                                *)
Program == OsImport \o EnvironStmts \o ImportStmts \o ConfigStmts

----------------------------------------------------------------------------
(* Execution.                                                              *)

Stmt == Program[pc]

Bound(id) == ns[id] # Unset

(* Whether the statement at pc runs to completion, and the exception it    *)
(* raises when it does not.                                                *)
Raises(s) ==
    CASE s.op \in {"import", "from_import"} ->
            IF Importable(s.module) THEN "none" ELSE "ImportError"
      [] s.op = "environ" ->
            IF Bound("os") THEN "none" ELSE "NameError"
      [] s.op = "config" ->
            IF s.expr.e = "name" /\ ~Bound(s.expr.id) THEN "NameError" ELSE "none"

Eval(expr) == IF expr.e = "lit" THEN expr.v ELSE ns[expr.id]

Advance ==
    /\ pc' = pc + 1
    /\ status' = IF pc = Len(Program) THEN "done" ELSE "loading"
    /\ UNCHANGED <<error, installed>>

Init ==
    /\ pc = 1
    /\ status = "loading"
    /\ error = "none"
    /\ environ \in [EnvNames -> PriorValues]
    /\ c = [k \in Keys |-> Unset]
    /\ ns = [n \in Names |-> Unset]
    /\ installed \in SUBSET ThirdPartyModules
    /\ writes = [t \in Targets |-> 0]

(* import os *)
DoImport ==
    /\ status = "loading"
    /\ Stmt.op = "import"
    /\ Raises(Stmt) = "none"
    /\ ns' = [ns EXCEPT ![Stmt.module] = ModuleV(Stmt.module)]
    /\ Advance
    /\ UNCHANGED <<environ, c, writes>>

(* from module import name, ... *)
DoFromImport ==
    /\ status = "loading"
    /\ Stmt.op = "from_import"
    /\ Raises(Stmt) = "none"
    /\ ns' = [n \in Names |->
                IF n \in Stmt.names THEN ClassV(Stmt.module, n) ELSE ns[n]]
    /\ Advance
    /\ UNCHANGED <<environ, c, writes>>

(* os.environ[name] = 'value' *)
DoEnviron ==
    /\ status = "loading"
    /\ Stmt.op = "environ"
    /\ Raises(Stmt) = "none"
    /\ environ' = [environ EXCEPT ![Stmt.name] = StrV(Stmt.value)]
    /\ writes' = [writes EXCEPT ![<<"os.environ", Stmt.name>>] = @ + 1]
    /\ Advance
    /\ UNCHANGED <<c, ns>>

(* c.Section.trait = expr *)
DoConfig ==
    /\ status = "loading"
    /\ Stmt.op = "config"
    /\ Raises(Stmt) = "none"
    /\ c' = [c EXCEPT ![Stmt.key] = Eval(Stmt.expr)]
    /\ writes' = [writes EXCEPT ![Stmt.key] = @ + 1]
    /\ Advance
    /\ UNCHANGED <<environ, ns>>

(* The statement at pc raises: loading stops there, and what the earlier   *)
(* statements did stays done.                                              *)
Raise ==
    /\ status = "loading"
    /\ Raises(Stmt) # "none"
    /\ status' = "failed"
    /\ error' = Raises(Stmt)
    /\ UNCHANGED <<pc, environ, c, ns, installed, writes>>

Next == DoImport \/ DoFromImport \/ DoEnviron \/ DoConfig \/ Raise

Spec == Init /\ [][Next]_vars

(* Python runs the statements of a file one after the other without        *)
(* stopping in between.                                                    *)
FairSpec == Spec /\ WF_vars(Next)

----------------------------------------------------------------------------
TypeOK ==
    /\ pc \in 1..(Len(Program) + 1)
    /\ status \in {"loading", "done", "failed"}
    /\ error \in {"none", "ImportError", "NameError"}
    /\ installed \subseteq ThirdPartyModules

Populated == {k \in Keys : c[k] # Unset}
WrittenEnv == {n \in EnvNames : writes[<<"os.environ", n>>] > 0}


K(section, trait) == <<section, trait>>

----------------------------------------------------------------------------
(* The options of the external-interfaces table.                           *)
DocumentedKeys ==
    { K("JupyterHub", "authenticator_class"),
      K("COManageOAuthenticator", "oauth_callback_url"),
      K("COManageOAuthenticator", "idp_whitelist"),
      K("COManageOAuthenticator", "comanage_group_whitelist"),
      K("JupyterHub", "cookie_secret_file"),
      K("ConfigurableHTTPProxy", "debug"),
      K("JupyterHub", "log_level"),
      K("JupyterHub", "spawner_class"),
      K("JupyterHub", "ssl_cert"),
      K("JupyterHub", "ssl_key"),
      K("Authenticator", "admin_users"),
      K("Authenticator", "enable_auth_state"),
      K("LocalAuthenticator", "create_system_users") }

ExpectedEnviron ==
    [ CILOGON_HOST |-> StrV("cilogon.org"),
      CILOGON_CLIENT_ID |->
          StrV("cilogon:/client_id/5ea8818a26318a9dc03d8a1f82bef34a"),
      CILOGON_CLIENT_SECRET |->
          StrV("XXXXXXXXXXXXXXXXXXXXXXXXXXXXXXXXXXXXXXXXXXXXXXXXXXXXXXXXXXXXXXXXXXXXXXXXXXXx"),
      JUPYTERHUB_CRYPT_KEY |->
          StrV("XXXXXXXXXXXXXXXXXXXXXXXXXXXXXXXXXXXXXXXXXXXXXXXXXXXXXXXXXXXXxxxx") ]

ExpectedValue(k) ==
    CASE k = K("JupyterHub", "authenticator_class") ->
            ClassV("oauthenticator.comanage", "LocalCOManageOAuthenticator")
      [] k = K("COManageOAuthenticator", "oauth_callback_url") ->
            StrV("https://jupyter05.sdcc.bnl.gov:8000/hub/oauth_callback")
      [] k = K("COManageOAuthenticator", "idp_whitelist") ->
            ListV(<<"bnl.gov", "anl.gov", "ornl.gov", "lbl.gov">>)
      [] k = K("COManageOAuthenticator", "comanage_group_whitelist") ->
            ListV(<<"CO:members:active", "bnl">>)
      [] k = K("JupyterHub", "cookie_secret_file") ->
            StrV("/usr/local/anaconda3/etc/jupyterhub/jupyterhub_cookie_secret")
      [] k = K("ConfigurableHTTPProxy", "debug") -> BoolV(TRUE)
      [] k = K("JupyterHub", "log_level") -> IntV(10)
      [] k = K("JupyterHub", "spawner_class") ->
            StrV("jupyterhub.spawner.LocalProcessSpawner")
      [] k = K("JupyterHub", "ssl_cert") ->
            StrV("/usr/local/anaconda3/etc/jupyterhub/ssl/certificate.crt")
      [] k = K("JupyterHub", "ssl_key") ->
            StrV("/usr/local/anaconda3/etc/jupyterhub/ssl/key.pem")
      [] k = K("Spawner", "debug") -> BoolV(TRUE)
      [] k = K("Authenticator", "admin_users") -> SetV({"jhover@bnl.gov"})
      [] k = K("Authenticator", "enable_auth_state") -> BoolV(TRUE)
      [] k = K("LocalAuthenticator", "create_system_users") -> BoolV(TRUE)
      [] OTHER -> Unset

(* C1, as stated: once the file is loaded, the environment variables the   *)
(* file wrote are the four documented ones and the populated settings are  *)
(* exactly the options of the external-interfaces table, each with the     *)
(* value written in the file.                                              *)
C1_ExactlyTheTable ==
    status = "done" =>
        /\ WrittenEnv = EnvNames
        /\ environ = ExpectedEnviron
        /\ Populated = DocumentedKeys
        /\ \A k \in Populated : c[k] = ExpectedValue(k)

(* C1, amended: once the file is loaded, the environment variables the     *)
(* file wrote are the four documented ones and the populated settings are  *)
(* the options of the table and Spawner.debug, which the table does not    *)
(* list; each holds the value written in the file.                         *)
C1_TableAndSpawnerDebug ==
    status = "done" =>
        /\ WrittenEnv = EnvNames
        /\ environ = ExpectedEnviron
        /\ Populated = DocumentedKeys \cup {K("Spawner", "debug")}
        /\ \A k \in Keys : c[k] = ExpectedValue(k)

C1_Witness ==
    /\ status = "done"
    /\ c[K("Spawner", "debug")] = BoolV(TRUE)
    /\ K("Spawner", "debug") \notin DocumentedKeys
    /\ Cardinality(Populated) = 14

----------------------------------------------------------------------------
(* C2, as stated: loading never raises.                                    *)
C2_NeverRaises == status # "failed"

(* C2, amended: loading raises only at one of the two from-imports, with   *)
(* ImportError and only when the module it names is not installed; the     *)
(* four environment variables are then set and no settings key is. When    *)
(* both modules are installed every statement completes and loading        *)
(* reaches the end of the file.                                            *)
C2_RaisesOnlyAtMissingImport ==
    /\ [](status = "failed" =>
            /\ Stmt.op = "from_import"
            /\ Stmt.module \notin installed
            /\ error = "ImportError"
            /\ WrittenEnv = EnvNames
            /\ Populated = {})
    /\ ((installed = ThirdPartyModules) ~> (status = "done"))

C2_Witness ==
    /\ status = "done"
    /\ installed = ThirdPartyModules
    /\ error = "none"
    /\ pc = Len(Program) + 1

----------------------------------------------------------------------------
(* C3: every environment variable and settings key is assigned at most     *)
(* once by the file, a value changes only while loading and only at the    *)
(* first assignment of its key, and nothing changes once loading is over.  *)
C3_SetOnce ==
    [][ /\ \A t \in Targets : writes'[t] <= 1
        /\ \A t \in EnvTargets :
              environ'[t[2]] # environ[t[2]] =>
                  status = "loading" /\ writes[t] = 0 /\ writes'[t] = 1
        /\ \A k \in Keys :
              c'[k] # c[k] => status = "loading" /\ writes[k] = 0 /\ writes'[k] = 1
        /\ status = "done" => UNCHANGED <<environ, c>> ]_vars

C3_Witness ==
    /\ status = "done"
    /\ \A n \in EnvNames : writes[<<"os.environ", n>>] = 1
    /\ \A k \in Populated : writes[k] = 1
    /\ Cardinality({t \in Targets : writes[t] = 1}) = 18

----------------------------------------------------------------------------
IsScalar(v) == v.kind \in {"str", "int", "bool"}
IsSetOfStrings(v) == v.kind = "set" /\ \A e \in v.elems : e \in STRING
IsListOfStrings(v) ==
    v.kind = "list" /\ \A i \in 1..Len(v.items) : v.items[i] \in STRING

Collections ==
    { K("COManageOAuthenticator", "idp_whitelist"),
      K("COManageOAuthenticator", "comanage_group_whitelist"),
      K("Authenticator", "admin_users") }

(* C4, as stated: every value an environment variable or settings key      *)
(* holds is a string, integer or boolean or a set of strings, and the two  *)
(* whitelists and the administrative users are sets of strings.            *)
C4_ScalarsAndSets ==
    /\ \A n \in EnvNames : environ[n] # Unset => IsScalar(environ[n])
    /\ \A k \in Populated : IsScalar(c[k]) \/ IsSetOfStrings(c[k])
    /\ \A k \in Collections \cap Populated : IsSetOfStrings(c[k])

(* C4, amended: every environment variable holds a string; a settings key  *)
(* holds a string, integer or boolean, except that the two whitelists are  *)
(* lists of strings, the administrative users are a set of strings and     *)
(* the authenticator class is a class object.                              *)
C4_ScalarsListsSetAndClass ==
    /\ \A n \in EnvNames : environ[n] # Unset => environ[n].kind = "str"
    /\ \A k \in Populated :
          CASE k \in { K("COManageOAuthenticator", "idp_whitelist"),
                       K("COManageOAuthenticator", "comanage_group_whitelist") } ->
                  IsListOfStrings(c[k])
            [] k = K("Authenticator", "admin_users") -> IsSetOfStrings(c[k])
            [] k = K("JupyterHub", "authenticator_class") -> c[k].kind = "class"
            [] OTHER -> IsScalar(c[k])

C4_Witness ==
    /\ status = "done"
    /\ c[K("COManageOAuthenticator", "idp_whitelist")].kind = "list"
    /\ c[K("COManageOAuthenticator", "comanage_group_whitelist")].kind = "list"
    /\ c[K("Authenticator", "admin_users")].kind = "set"
    /\ c[K("JupyterHub", "authenticator_class")].kind = "class"

----------------------------------------------------------------------------
(* C5: once the file is loaded, the authenticator class is                 *)
(* LocalCOManageOAuthenticator, not the COManageOAuthenticator imported    *)
(* with it, and create_system_users is true.                               *)
C5_LocalAuthenticatorSelected ==
    status = "done" =>
        /\ c[K("JupyterHub", "authenticator_class")] =
              ClassV("oauthenticator.comanage", "LocalCOManageOAuthenticator")
        /\ c[K("JupyterHub", "authenticator_class")] # ns["COManageOAuthenticator"]
        /\ c[K("LocalAuthenticator", "create_system_users")] = BoolV(TRUE)

C5_Witness ==
    /\ status = "done"
    /\ Bound("COManageOAuthenticator")
    /\ c[K("JupyterHub", "authenticator_class")] = ns["LocalCOManageOAuthenticator"]
    /\ c[K("LocalAuthenticator", "create_system_users")].kind = "bool"

----------------------------------------------------------------------------
(* C6: no settings key ever holds the imported NormalizedSpawner, and once *)
(* the file is loaded the spawner class is the string                      *)
(* 'jupyterhub.spawner.LocalProcessSpawner'.                               *)
C6_LocalProcessSpawnerSelected ==
    /\ \A k \in Keys : c[k] # ClassV("jupyterhub.comanage", "NormalizedSpawner")
    /\ status = "done" =>
          c[K("JupyterHub", "spawner_class")] =
              StrV("jupyterhub.spawner.LocalProcessSpawner")

C6_Witness ==
    /\ status = "done"
    /\ ns["NormalizedSpawner"] = ClassV("jupyterhub.comanage", "NormalizedSpawner")
    /\ c[K("JupyterHub", "spawner_class")].kind = "str"

----------------------------------------------------------------------------
AllEnvironSet ==
    \A n \in EnvNames : writes[<<"os.environ", n>>] > 0 /\ environ[n].kind = "str"

(* C8: whenever the import of oauthenticator.comanage is about to run, has *)
(* run or has failed, and whenever a settings key is assigned, the file    *)
(* has already set all four environment variables.                         *)
C8_EnvironBeforeImportAndSettings ==
    /\ (status # "done" /\ Stmt.op = "from_import") => AllEnvironSet
    /\ (\E n \in Names \ {"os"} : Bound(n)) => AllEnvironSet
    /\ Populated # {} => AllEnvironSet

C8_Witness ==
    /\ status = "loading"
    /\ Stmt.op = "from_import"
    /\ Stmt.module = "oauthenticator.comanage"
    /\ Populated = {}
    /\ AllEnvironSet

----------------------------------------------------------------------------
(* C9: whenever enable_auth_state is true, JUPYTERHUB_CRYPT_KEY is set to  *)
(* a non-empty string.                                                     *)
C9_CryptKeyBeforeAuthState ==
    c[K("Authenticator", "enable_auth_state")] = BoolV(TRUE) =>
        /\ environ["JUPYTERHUB_CRYPT_KEY"].kind = "str"
        /\ environ["JUPYTERHUB_CRYPT_KEY"].s # ""

C9_Witness ==
    /\ c[K("Authenticator", "enable_auth_state")] = BoolV(TRUE)
    /\ writes[<<"os.environ", "JUPYTERHUB_CRYPT_KEY">>] = 1
    /\ environ["JUPYTERHUB_CRYPT_KEY"] # StrV("")

----------------------------------------------------------------------------
(* The characters of the user names and domains of the file.               *)
Chars(s) ==
    CASE s = "jhover@bnl.gov" ->
            <<"j", "h", "o", "v", "e", "r", "@", "b", "n", "l", ".", "g", "o", "v">>
      [] s = "bnl.gov" -> <<"b", "n", "l", ".", "g", "o", "v">>
      [] s = "anl.gov" -> <<"a", "n", "l", ".", "g", "o", "v">>
      [] s = "ornl.gov" -> <<"o", "r", "n", "l", ".", "g", "o", "v">>
      [] s = "lbl.gov" -> <<"l", "b", "l", ".", "g", "o", "v">>

Ats(chars) == {i \in 1..Len(chars) : chars[i] = "@"}
Max(S) == CHOOSE i \in S : \A j \in S : j <= i

(* The part of name@domain after the last @.                               *)
DomainOf(chars) == SubSeq(chars, Max(Ats(chars)) + 1, Len(chars))

Members(v) ==
    CASE v.kind = "set" -> v.elems
      [] v.kind = "list" -> {v.items[i] : i \in 1..Len(v.items)}
      [] OTHER -> {}

(* C10: once the file is loaded, the domain of every administrative user   *)
(* of the form name@domain is in the identity-provider domain whitelist.   *)
C10_AdminDomainsWhitelisted ==
    status = "done" =>
        \A u \in Members(c[K("Authenticator", "admin_users")]) :
            Ats(Chars(u)) # {} =>
                \E d \in Members(c[K("COManageOAuthenticator", "idp_whitelist")]) :
                    Chars(d) = DomainOf(Chars(u))

C10_Witness ==
    /\ status = "done"
    /\ "jhover@bnl.gov" \in Members(c[K("Authenticator", "admin_users")])
    /\ DomainOf(Chars("jhover@bnl.gov")) = Chars("bnl.gov")
    /\ "bnl.gov" \in Members(c[K("COManageOAuthenticator", "idp_whitelist")])

====
